---- MODULE Spec2Model ----
(***************************************************************************)
(* Database handles of libmdbx-rs (src/src/database.rs).                   *)
(*                                                                         *)
(* A Database<'txn, K> is a dbi number plus a shared reference to the      *)
(* transaction's Mutex<*mut MDBX_txn>.  Every engine call goes through     *)
(* txn_execute (lock, call, unlock) and its status through mdbx_result.    *)
(* Threads share the handles (Database is Send + Sync).                    *)
(***************************************************************************)
EXTENDS FiniteSets, Integers, Sequences, TLC

(***************************************************************************)
(* Bounds of the model                                                     *)
(***************************************************************************)
MaxHandles == 2       \* Database handles alive in one transaction
MaxEntries == 2       \* entries the map holds before MDBX_MAP_FULL
MaxOps     == 3       \* operations invoked in one run
MaxTxns    == 1       \* transactions begun after the first one

Threads  == {"t1", "t2"}
NoThread == "none"
Keys     == {"k1", "k2"}
Byte     == {0, 1}
Kinds    == {"RO", "RW"}

Values(n) == [1..n -> Byte]
Lens      == {1, 2}
AllValues == UNION {Values(n) : n \in Lens}

(* Option<T> *)
Some(x)  == [some |-> TRUE, v |-> x]
NoData   == [some |-> FALSE, v |-> <<>>]
NoName   == [some |-> FALSE, v |-> <<>>]

(* database names as byte strings: "a" and "a\0b" *)
NameA    == <<97>>
NameNul  == <<97, 0, 98>>
NameOpts == {NoName, Some(NameA), Some(NameNul)}

(* dbi numbers of the engine *)
FREE_DBI == 0
MAIN_DBI == 1
CORE_DBS == 2
DBIs     == 0..2
NamedDbi(n) == 2

PersistentFlags == {"DUP_SORT", "INTEGER_KEY"}
OpenFlagSets    == SUBSET {"CREATE", "DUP_SORT"}
KnownFlags      == {"CREATE", "DUP_SORT", "INTEGER_KEY"}
WriteFlagSets   == {{}, {"NO_OVERWRITE"}}

VARIABLES
    txnKind,    \* K of the live Transaction<'env, K, E>
    txnid,      \* number of the live transaction
    mutex,      \* the Mutex<*mut MDBX_txn>: the thread holding it, or NoThread
    db,         \* engine: dbi -> [exists, usr, flags, entries]
    handles,    \* handle id -> [st, dbi, kind]
    pc,         \* thread -> position inside its operation
    op,         \* thread -> the operation in progress, or the last one finished
    view,       \* thread -> the last &'txn mut [u8] reserve returned to it
    nops        \* operations invoked so far

vars == <<txnKind, txnid, mutex, db, handles, pc, op, view, nops>>

(***************************************************************************)
(* The engine (libmdbx), at its call interface                             *)
(***************************************************************************)
NoOut == [dbi |-> 0, flags |-> {}, entries |-> 0, len |-> 0, vals |-> {}]
Outcome(status, d, out) == [status |-> status, db |-> d, out |-> out]

EntriesOf(d, dbi, key) == {e \in d[dbi].entries : e.key = key}
TotalEntries(d) == Cardinality(UNION {d[i].entries : i \in DBIs})

dbi_valid(d, dbi) == dbi < CORE_DBS \/ d[dbi].usr
dbi_usrvalid(d, dbi) == d[dbi].usr

dbi_bind(d, kind, dbi, user_flags) ==
    LET req == user_flags \cap PersistentFlags
        ok(dd) == Outcome("SUCCESS", [dd EXCEPT ![dbi].usr = TRUE], [NoOut EXCEPT !.dbi = dbi])
    IN  IF req = d[dbi].flags \/ user_flags = {}
        THEN ok(d)
        ELSE IF "CREATE" \in user_flags /\ d[dbi].entries = {}
        THEN IF kind = "RO"
             THEN Outcome("EACCESS", d, NoOut)
             ELSE ok([d EXCEPT ![dbi].flags = req])
        ELSE Outcome("INCOMPATIBLE", d, NoOut)

mdbx_dbi_open(d, kind, name, flags) ==
    IF ~name.some
    THEN {dbi_bind(d, kind, MAIN_DBI, flags)}
    ELSE LET dbi == NamedDbi(name.v) IN
         IF d[dbi].exists
         THEN {dbi_bind(d, kind, dbi, flags)}
         ELSE IF "CREATE" \notin flags
         THEN {Outcome("NOTFOUND", d, NoOut)}
         ELSE IF kind = "RO"
         THEN {Outcome("EACCESS", d, NoOut)}
         ELSE {Outcome("SUCCESS",
                       [d EXCEPT ![dbi] = [exists |-> TRUE, usr |-> TRUE,
                                           flags |-> flags \cap PersistentFlags,
                                           entries |-> {}]],
                       [NoOut EXCEPT !.dbi = dbi])}

mdbx_dbi_flags_ex(d, dbi) ==
    IF ~dbi_valid(d, dbi)
    THEN {Outcome("BAD_DBI", d, NoOut)}
    ELSE {Outcome("SUCCESS", d, [NoOut EXCEPT !.flags = d[dbi].flags])}

mdbx_dbi_stat(d, dbi) ==
    IF ~dbi_valid(d, dbi)
    THEN {Outcome("BAD_DBI", d, NoOut)}
    ELSE {Outcome("SUCCESS", d, [NoOut EXCEPT !.entries = Cardinality(d[dbi].entries)])}

(* mdbx_put with MDBX_RESERVE: the slot is allocated, its bytes are whatever *)
(* the page held                                                            *)
mdbx_put_reserve(d, kind, dbi, key, len, wflags) ==
    IF ~dbi_usrvalid(d, dbi)
    THEN {Outcome("BAD_DBI", d, NoOut)}
    ELSE IF kind = "RO"
    THEN {Outcome("EACCESS", d, NoOut)}
    ELSE IF "DUP_SORT" \in d[dbi].flags
    THEN {Outcome("INCOMPATIBLE", d, NoOut)}
    ELSE IF "NO_OVERWRITE" \in wflags /\ EntriesOf(d, dbi, key) # {}
    THEN {Outcome("KEYEXIST", d, NoOut)}
    ELSE IF EntriesOf(d, dbi, key) = {} /\ TotalEntries(d) >= MaxEntries
    THEN {Outcome("MAP_FULL", d, NoOut)}
    ELSE {Outcome("SUCCESS",
                  [d EXCEPT ![dbi].entries =
                       (@ \ EntriesOf(d, dbi, key)) \cup {[key |-> key, val |-> v]}],
                  [NoOut EXCEPT !.len = len]) : v \in Values(len)}

(* mdbx_put with the caller's data *)
mdbx_put(d, kind, dbi, key, data, wflags) ==
    IF ~dbi_usrvalid(d, dbi)
    THEN {Outcome("BAD_DBI", d, NoOut)}
    ELSE IF kind = "RO"
    THEN {Outcome("EACCESS", d, NoOut)}
    ELSE IF "NO_OVERWRITE" \in wflags /\ EntriesOf(d, dbi, key) # {}
    THEN {Outcome("KEYEXIST", d, NoOut)}
    ELSE LET e == [key |-> key, val |-> data]
             new == IF "DUP_SORT" \in d[dbi].flags
                    THEN d[dbi].entries \cup {e}
                    ELSE (d[dbi].entries \ EntriesOf(d, dbi, key)) \cup {e}
         IN  IF Cardinality(UNION {IF i = dbi THEN new ELSE d[i].entries : i \in DBIs}) > MaxEntries
             THEN {Outcome("MAP_FULL", d, NoOut)}
             ELSE {Outcome("SUCCESS", [d EXCEPT ![dbi].entries = new], NoOut)}

mdbx_get(d, dbi, key) ==
    IF ~dbi_usrvalid(d, dbi)
    THEN {Outcome("BAD_DBI", d, NoOut)}
    ELSE IF EntriesOf(d, dbi, key) = {}
    THEN {Outcome("NOTFOUND", d, NoOut)}
    ELSE {Outcome("SUCCESS", d,
                  [NoOut EXCEPT !.vals = {e.val : e \in EntriesOf(d, dbi, key)}])}

(* data = NoData is the NULL data pointer: all values of the key go *)
mdbx_del(d, kind, dbi, key, data) ==
    IF ~dbi_usrvalid(d, dbi)
    THEN {Outcome("BAD_DBI", d, NoOut)}
    ELSE IF kind = "RO"
    THEN {Outcome("EACCESS", d, NoOut)}
    ELSE LET gone == IF data.some
                     THEN {e \in EntriesOf(d, dbi, key) : e.val = data.v}
                     ELSE EntriesOf(d, dbi, key)
         IN  IF gone = {}
             THEN {Outcome("NOTFOUND", d, NoOut)}
             ELSE {Outcome("SUCCESS", [d EXCEPT ![dbi].entries = @ \ gone], NoOut)}

mdbx_drop(d, kind, dbi, del) ==
    IF ~dbi_usrvalid(d, dbi)
    THEN {Outcome("BAD_DBI", d, NoOut)}
    ELSE IF kind = "RO"
    THEN {Outcome("EACCESS", d, NoOut)}
    ELSE IF del /\ dbi >= CORE_DBS
    THEN {Outcome("SUCCESS",
                  [d EXCEPT ![dbi] = [exists |-> FALSE, usr |-> FALSE,
                                      flags |-> {}, entries |-> {}]], NoOut)}
    ELSE {Outcome("SUCCESS", [d EXCEPT ![dbi].entries = {}], NoOut)}

(***************************************************************************)
(* Helpers of the crate used by database.rs                                *)
(***************************************************************************)
mdbx_result(status) == IF status = "SUCCESS" THEN "Ok" ELSE "Err"

(* CString::new fails on an interior 0 byte *)
CString_new(n) == IF \E i \in 1..Len(n) : n[i] = 0 THEN "Err" ELSE "Ok"

(* DatabaseFlags::from_bits_truncate keeps the bits the type knows *)
from_bits_truncate(flags) == flags \cap KnownFlags

(***************************************************************************)
(* State of the handles and of the threads                                 *)
(***************************************************************************)
HandleIds == 1..MaxHandles
NoHandle  == [st |-> "None", dbi |-> 0, kind |-> "RO"]
NoView    == [some |-> FALSE, dbi |-> 0, key |-> "", len |-> 0,
              valid |-> FALSE, filled |-> FALSE, bytes |-> <<>>]
NoOp      == [name |-> "none", h |-> 0, dbi |-> 0, dname |-> NoName, key |-> "",
              data |-> NoData, len |-> 0, flags |-> {}, status |-> "none",
              out |-> NoOut, res |-> "none", calls |-> 0, had |-> 0, seq |-> 0]

Min(S) == CHOOSE x \in S : \A y \in S : x <= y
FreeIds == {h \in HandleIds : handles[h].st = "None"}
Busy(t) == pc[t] \in {"lock", "call", "ret"}
PendingNew == {t \in Threads : Busy(t) /\ op[t].name = "new"}
InUse(h) == \E t \in Threads : Busy(t) /\ op[t].h = h
Usable(h) == handles[h].st = "Constructed"

(* environments a run can start from: a fresh one, and one in which an     *)
(* earlier transaction left a DUP_SORT database "a" with two values of k1  *)
EmptyEnv ==
    [i \in DBIs |->
        IF i = FREE_DBI
        THEN [exists |-> TRUE, usr |-> FALSE, flags |-> {"INTEGER_KEY"}, entries |-> {}]
        ELSE IF i = MAIN_DBI
        THEN [exists |-> TRUE, usr |-> FALSE, flags |-> {}, entries |-> {}]
        ELSE [exists |-> FALSE, usr |-> FALSE, flags |-> {}, entries |-> {}]]

InitEnvs ==
    { EmptyEnv,
      [EmptyEnv EXCEPT ![2] = [exists |-> TRUE, usr |-> FALSE, flags |-> {"DUP_SORT"},
                               entries |-> {[key |-> "k1", val |-> <<0>>],
                                            [key |-> "k1", val |-> <<1>>]}]] }

Init ==
    /\ txnKind \in Kinds
    /\ txnid = 0
    /\ mutex = NoThread
    /\ db \in InitEnvs
    /\ handles = [h \in HandleIds |-> NoHandle]
    /\ pc = [t \in Threads |-> "idle"]
    /\ op = [t \in Threads |-> NoOp]
    /\ view = [t \in Threads |-> NoView]
    /\ nops = 0

(* an operation that goes to the engine: the thread next takes the lock *)
Begin(t, o) ==
    /\ pc[t] = "idle"
    /\ nops < MaxOps
    /\ nops' = nops + 1
    /\ op' = [op EXCEPT ![t] = [o EXCEPT !.seq = nops + 1]]
    /\ pc' = [pc EXCEPT ![t] = "lock"]

(* an operation that returns without going to the engine *)
Direct(t, o) ==
    /\ pc[t] = "idle"
    /\ nops < MaxOps
    /\ nops' = nops + 1
    /\ op' = [op EXCEPT ![t] = [o EXCEPT !.seq = nops + 1]]
    /\ pc' = pc

(***************************************************************************)
(* txn_execute: lock the transaction pointer, call the closure, and unlock *)
(* as the call returns                                                     *)
(***************************************************************************)
txn_execute_lock(t) ==
    /\ pc[t] = "lock"
    /\ mutex = NoThread
    /\ mutex' = t
    /\ pc' = [pc EXCEPT ![t] = "call"]
    /\ UNCHANGED <<txnKind, txnid, db, handles, op, view, nops>>

(* mdbx_cursor_open, as far as the handle is concerned *)
mdbx_cursor_open(d, dbi) ==
    IF ~dbi_valid(d, dbi)
    THEN {Outcome("BAD_DBI", d, NoOut)}
    ELSE {Outcome("SUCCESS", d, NoOut)}

(* the engine call each operation's closure makes under txn_execute *)
new_call(o)      == mdbx_dbi_open(db, txnKind, o.dname, o.flags)
cursor_call(o)   == mdbx_cursor_open(db, o.dbi)
(* db_flags asking for the flags of dbi 0 instead of its own dbi *)
db_flags_call_zero(o) == mdbx_dbi_flags_ex(db, FREE_DBI)
db_flags_call(o) == mdbx_dbi_flags_ex(db, o.dbi)
(* stat wired to mdbx_drop instead of mdbx_dbi_stat *)
stat_call_drop(o) == mdbx_drop(db, txnKind, o.dbi, FALSE)
stat_call(o)     == mdbx_dbi_stat(db, o.dbi)
reserve_call(o)  == mdbx_put_reserve(db, txnKind, o.dbi, o.key, o.len, o.flags)
(* del handing the engine an empty slice where the caller gave no data *)
del_call_empty(o) ==
    mdbx_del(db, txnKind, o.dbi, o.key, IF o.data.some THEN o.data ELSE Some(<<>>))
(* del handing the engine the NULL data pointer whatever the caller gave *)
del_call_null(o) == mdbx_del(db, txnKind, o.dbi, o.key, NoData)
del_call(o)      == mdbx_del(db, txnKind, o.dbi, o.key, o.data)
(* clear_db asking mdbx_drop to delete the database *)
clear_db_call_delete(o) == mdbx_drop(db, txnKind, o.dbi, TRUE)
clear_db_call(o) == mdbx_drop(db, txnKind, o.dbi, FALSE)
drop_db_call(o)  == mdbx_drop(db, txnKind, o.dbi, TRUE)
put_call(o)      == mdbx_put(db, txnKind, o.dbi, o.key, o.data.v, o.flags)
get_call(o)      == mdbx_get(db, o.dbi, o.key)

EngineOutcomes(o) ==
    CASE o.name = "new"      -> new_call(o)
      [] o.name = "cursor"   -> cursor_call(o)
      [] o.name = "db_flags" -> db_flags_call(o)
      [] o.name = "stat"     -> stat_call(o)
      [] o.name = "reserve"  -> reserve_call(o)
      [] o.name = "del"      -> del_call(o)
      [] o.name = "clear_db" -> clear_db_call(o)
      [] o.name = "drop_db"  -> drop_db_call(o)
      [] o.name = "put"      -> put_call(o)
      [] o.name = "get"      -> get_call(o)

(* what a successful call does to the slot a view points into:           *)
(* "gone" the slot is freed, "moved" the page may have been rewritten     *)
SlotEffect(o, v) ==
    IF ~v.valid \/ v.dbi # o.dbi THEN "kept"
    ELSE CASE o.name \in {"clear_db", "drop_db"} -> "gone"
           [] o.name = "del" -> IF v.key = o.key THEN "gone" ELSE "moved"
           [] o.name = "reserve" ->
                  IF v.key = o.key /\ v.len # o.len THEN "gone" ELSE "moved"
           [] o.name = "put" ->
                  IF v.key = o.key /\ v.len # Len(o.data.v) THEN "gone" ELSE "moved"
           [] OTHER -> "kept"

txn_execute_call(t) ==
    /\ pc[t] = "call"
    /\ \E r \in EngineOutcomes(op[t]) :
          /\ db' = r.db
          /\ op' = [op EXCEPT ![t].status = r.status, ![t].out = r.out,
                              ![t].calls = @ + 1,
                              ![t].had = IF op[t].name = "new" THEN 0
                                         ELSE Cardinality(db[op[t].dbi].entries)]
          /\ IF r.status = "SUCCESS"
             THEN \E lost \in SUBSET {u \in Threads : SlotEffect(op[t], view[u]) = "moved"} :
                    view' = [u \in Threads |->
                               IF u = t /\ op[t].name = "reserve"
                               THEN [NoView EXCEPT !.dbi = op[t].dbi, !.key = op[t].key,
                                                   !.len = op[t].len, !.valid = TRUE]
                               ELSE IF SlotEffect(op[t], view[u]) = "gone" \/ u \in lost
                               THEN [view[u] EXCEPT !.valid = FALSE, !.filled = FALSE]
                               ELSE IF /\ op[t].name \in {"reserve", "put"}
                                       /\ SlotEffect(op[t], view[u]) = "moved"
                                       /\ view[u].key = op[t].key
                               THEN [view[u] EXCEPT !.filled = FALSE]
                               ELSE view[u]]
             ELSE view' = view
    /\ mutex' = NoThread
    /\ pc' = [pc EXCEPT ![t] = "ret"]
    /\ UNCHANGED <<txnKind, txnid, handles, nops>>

(* the operation returns to its caller *)
Return(t, res) ==
    /\ pc[t] = "ret"
    /\ op' = [op EXCEPT ![t].res = res]
    /\ pc' = [pc EXCEPT ![t] = "idle"]

(***************************************************************************)
(* impl Database<'txn, K>                                                  *)
(***************************************************************************)
new(t, name, flags) ==
    /\ Cardinality(FreeIds) > Cardinality(PendingNew)
    /\ IF name.some /\ CString_new(name.v) = "Err"
       THEN /\ pc[t] = "idle"
            /\ nops < MaxOps
            /\ nops' = nops + 1
            /\ op' = [op EXCEPT ![t] = [NoOp EXCEPT !.name = "new", !.dname = name,
                                                    !.flags = flags, !.res = "Panic",
                                                    !.seq = nops + 1]]
            /\ pc' = [pc EXCEPT ![t] = "panicked"]
       ELSE Begin(t, [NoOp EXCEPT !.name = "new", !.dname = name, !.flags = flags])
    /\ UNCHANGED <<txnKind, txnid, mutex, db, handles, view>>

new_ret(t) ==
    /\ op[t].name = "new"
    /\ Return(t, mdbx_result(op[t].status))
    /\ IF mdbx_result(op[t].status) = "Ok"
       THEN handles' = [handles EXCEPT ![Min(FreeIds)] =
                            [st |-> "Constructed", dbi |-> op[t].out.dbi, kind |-> txnKind]]
       ELSE handles' = handles
    /\ UNCHANGED <<txnKind, txnid, mutex, db, view, nops>>

(* freelist_db handing out the main database's dbi *)
freelist_db_main(t) ==
    /\ Cardinality(FreeIds) > Cardinality(PendingNew)
    /\ Direct(t, [NoOp EXCEPT !.name = "freelist_db", !.res = "Ok"])
    /\ handles' = [handles EXCEPT ![Min(FreeIds)] =
                        [st |-> "Constructed", dbi |-> MAIN_DBI, kind |-> txnKind]]
    /\ UNCHANGED <<txnKind, txnid, mutex, db, view>>

freelist_db(t) ==
    /\ Cardinality(FreeIds) > Cardinality(PendingNew)
    /\ Direct(t, [NoOp EXCEPT !.name = "freelist_db", !.res = "Ok"])
    /\ handles' = [handles EXCEPT ![Min(FreeIds)] =
                        [st |-> "Constructed", dbi |-> 0, kind |-> txnKind]]
    /\ UNCHANGED <<txnKind, txnid, mutex, db, view>>

dbi(t, h) ==
    /\ Usable(h)
    /\ Direct(t, [NoOp EXCEPT !.name = "dbi", !.h = h, !.dbi = handles[h].dbi,
                              !.out = [NoOut EXCEPT !.dbi = handles[h].dbi],
                              !.res = "Ok"])
    /\ UNCHANGED <<txnKind, txnid, mutex, db, handles, view>>

(* Cursor::new(self): one mdbx_cursor_open under txn_execute *)
cursor(t, h) ==
    /\ Usable(h)
    /\ Begin(t, [NoOp EXCEPT !.name = "cursor", !.h = h, !.dbi = handles[h].dbi])
    /\ UNCHANGED <<txnKind, txnid, mutex, db, handles, view>>

cursor_ret(t) ==
    /\ op[t].name = "cursor"
    /\ Return(t, mdbx_result(op[t].status))
    /\ UNCHANGED <<txnKind, txnid, mutex, db, handles, view, nops>>

(* db_flags calling the engine on the raw pointer, without txn_execute *)
db_flags_unlocked(t, h) ==
    /\ Usable(h)
    /\ pc[t] = "idle"
    /\ nops < MaxOps
    /\ nops' = nops + 1
    /\ op' = [op EXCEPT ![t] = [NoOp EXCEPT !.name = "db_flags", !.h = h,
                                            !.dbi = handles[h].dbi, !.seq = nops + 1]]
    /\ pc' = [pc EXCEPT ![t] = "call"]
    /\ UNCHANGED <<txnKind, txnid, mutex, db, handles, view>>

db_flags(t, h) ==
    /\ Usable(h)
    /\ Begin(t, [NoOp EXCEPT !.name = "db_flags", !.h = h, !.dbi = handles[h].dbi])
    /\ UNCHANGED <<txnKind, txnid, mutex, db, handles, view>>

db_flags_ret(t) ==
    /\ op[t].name = "db_flags"
    /\ pc[t] = "ret"
    /\ op' = [op EXCEPT ![t].res = mdbx_result(op[t].status),
                        ![t].out.flags = IF mdbx_result(op[t].status) = "Ok"
                                         THEN from_bits_truncate(@) ELSE {}]
    /\ pc' = [pc EXCEPT ![t] = "idle"]
    /\ UNCHANGED <<txnKind, txnid, mutex, db, handles, view, nops>>

stat(t, h) ==
    /\ Usable(h)
    /\ Begin(t, [NoOp EXCEPT !.name = "stat", !.h = h, !.dbi = handles[h].dbi])
    /\ UNCHANGED <<txnKind, txnid, mutex, db, handles, view>>

stat_ret(t) ==
    /\ op[t].name = "stat"
    /\ Return(t, mdbx_result(op[t].status))
    /\ UNCHANGED <<txnKind, txnid, mutex, db, handles, view, nops>>

(***************************************************************************)
(* impl Database<'txn, RW>                                                 *)
(***************************************************************************)
(* reserve declared in the impl block of every K *)
reserve_any_kind(t, h, key, len, flags) ==
    /\ Usable(h)
    /\ Begin(t, [NoOp EXCEPT !.name = "reserve", !.h = h, !.dbi = handles[h].dbi,
                             !.key = key, !.len = len, !.flags = flags])
    /\ UNCHANGED <<txnKind, txnid, mutex, db, handles, view>>

reserve(t, h, key, len, flags) ==
    /\ Usable(h)
    /\ handles[h].kind = "RW"
    /\ Begin(t, [NoOp EXCEPT !.name = "reserve", !.h = h, !.dbi = handles[h].dbi,
                             !.key = key, !.len = len, !.flags = flags])
    /\ UNCHANGED <<txnKind, txnid, mutex, db, handles, view>>

(* reserve building a slice one byte short of data_val.iov_len *)
reserve_ret_short(t) ==
    /\ op[t].name = "reserve"
    /\ Return(t, mdbx_result(op[t].status))
    /\ IF mdbx_result(op[t].status) = "Ok"
       THEN view' = [view EXCEPT ![t].some = TRUE, ![t].len = op[t].out.len - 1]
       ELSE view' = view
    /\ UNCHANGED <<txnKind, txnid, mutex, db, handles, nops>>

(* slice::from_raw_parts_mut(data_val.iov_base, data_val.iov_len) *)
reserve_ret(t) ==
    /\ op[t].name = "reserve"
    /\ Return(t, mdbx_result(op[t].status))
    /\ IF mdbx_result(op[t].status) = "Ok"
       THEN view' = [view EXCEPT ![t].some = TRUE, ![t].len = op[t].out.len]
       ELSE view' = view
    /\ UNCHANGED <<txnKind, txnid, mutex, db, handles, nops>>

(* del returning Ok to its caller without waiting for the engine *)
del_no_wait(t, h, key, data) ==
    /\ Usable(h)
    /\ handles[h].kind = "RW"
    /\ Direct(t, [NoOp EXCEPT !.name = "del", !.h = h, !.dbi = handles[h].dbi,
                              !.key = key, !.data = data, !.res = "Ok"])
    /\ UNCHANGED <<txnKind, txnid, mutex, db, handles, view>>

del(t, h, key, data) ==
    /\ Usable(h)
    /\ handles[h].kind = "RW"
    /\ Begin(t, [NoOp EXCEPT !.name = "del", !.h = h, !.dbi = handles[h].dbi,
                             !.key = key, !.data = data])
    /\ UNCHANGED <<txnKind, txnid, mutex, db, handles, view>>

(* del dropping the status of the call *)
del_ret_swallow(t) ==
    /\ op[t].name = "del"
    /\ Return(t, "Ok")
    /\ UNCHANGED <<txnKind, txnid, mutex, db, handles, view, nops>>

(* del taking the lock and calling the engine again until the call succeeds *)
del_ret_retry(t) ==
    /\ op[t].name = "del"
    /\ pc[t] = "ret"
    /\ IF mdbx_result(op[t].status) = "Ok"
       THEN /\ op' = [op EXCEPT ![t].res = "Ok"]
            /\ pc' = [pc EXCEPT ![t] = "idle"]
       ELSE /\ op' = op
            /\ pc' = [pc EXCEPT ![t] = "lock"]
    /\ UNCHANGED <<txnKind, txnid, mutex, db, handles, view, nops>>

del_ret(t) ==
    /\ op[t].name = "del"
    /\ Return(t, mdbx_result(op[t].status))
    /\ UNCHANGED <<txnKind, txnid, mutex, db, handles, view, nops>>

clear_db(t, h) ==
    /\ Usable(h)
    /\ handles[h].kind = "RW"
    /\ Begin(t, [NoOp EXCEPT !.name = "clear_db", !.h = h, !.dbi = handles[h].dbi])
    /\ UNCHANGED <<txnKind, txnid, mutex, db, handles, view>>

clear_db_ret(t) ==
    /\ op[t].name = "clear_db"
    /\ Return(t, mdbx_result(op[t].status))
    /\ UNCHANGED <<txnKind, txnid, mutex, db, handles, view, nops>>

(* drop_db taking &self: the handle survives the call *)
drop_db_borrowing(t, h) ==
    /\ Usable(h)
    /\ handles[h].kind = "RW"
    /\ Begin(t, [NoOp EXCEPT !.name = "drop_db", !.h = h, !.dbi = handles[h].dbi])
    /\ UNCHANGED <<txnKind, txnid, mutex, db, handles, view>>

(* drop_db(self): the handle is moved into the call *)
drop_db(t, h) ==
    /\ Usable(h)
    /\ handles[h].kind = "RW"
    /\ ~InUse(h)
    /\ Begin(t, [NoOp EXCEPT !.name = "drop_db", !.h = h, !.dbi = handles[h].dbi])
    /\ handles' = [handles EXCEPT ![h].st = "Invalid"]
    /\ UNCHANGED <<txnKind, txnid, mutex, db, view>>

drop_db_ret(t) ==
    /\ op[t].name = "drop_db"
    /\ Return(t, mdbx_result(op[t].status))
    /\ UNCHANGED <<txnKind, txnid, mutex, db, handles, view, nops>>

(***************************************************************************)
(* The rest of the crate, as far as the handles' callers need it           *)
(***************************************************************************)
(* Transaction::put on a handle of a read-write transaction *)
put(t, h, key, data, flags) ==
    /\ Usable(h)
    /\ handles[h].kind = "RW"
    /\ Begin(t, [NoOp EXCEPT !.name = "put", !.h = h, !.dbi = handles[h].dbi,
                             !.key = key, !.data = Some(data), !.flags = flags])
    /\ UNCHANGED <<txnKind, txnid, mutex, db, handles, view>>

put_ret(t) ==
    /\ op[t].name = "put"
    /\ Return(t, mdbx_result(op[t].status))
    /\ UNCHANGED <<txnKind, txnid, mutex, db, handles, view, nops>>

(* reading the values of a key back *)
get(t, h, key) ==
    /\ Usable(h)
    /\ Begin(t, [NoOp EXCEPT !.name = "get", !.h = h, !.dbi = handles[h].dbi,
                             !.key = key])
    /\ UNCHANGED <<txnKind, txnid, mutex, db, handles, view>>

get_ret(t) ==
    /\ op[t].name = "get"
    /\ Return(t, mdbx_result(op[t].status))
    /\ UNCHANGED <<txnKind, txnid, mutex, db, handles, view, nops>>

(* writing bytes b through entry e's slot *)
WriteSlot(d, i, e, b) ==
    [d EXCEPT ![i].entries = (@ \ {e}) \cup {[key |-> e.key, val |-> b]}]

(* the caller fills the slice reserve returned.  A slice whose slot is gone *)
(* points into a page the engine has freed or rewritten: the bytes land     *)
(* nowhere, or in an entry that now lives there                             *)
fill(t, b) ==
    /\ pc[t] = "idle"
    /\ view[t].some
    /\ b \in Values(view[t].len)
    /\ IF view[t].valid
       THEN /\ \E e \in EntriesOf(db, view[t].dbi, view[t].key) :
                 db' = WriteSlot(db, view[t].dbi, e, b)
            /\ view' = [u \in Threads |->
                          IF u = t
                          THEN [view[u] EXCEPT !.filled = TRUE, !.bytes = b]
                          ELSE IF /\ view[u].valid
                                  /\ view[u].dbi = view[t].dbi
                                  /\ view[u].key = view[t].key
                          THEN [view[u] EXCEPT !.filled = FALSE]
                          ELSE view[u]]
       ELSE \/ /\ db' = db
               /\ view' = view
            \/ \E i \in DBIs : \E e \in db[i].entries :
                  /\ Len(e.val) = Len(b)
                  /\ db' = WriteSlot(db, i, e, b)
                  /\ view' = [u \in Threads |->
                                IF view[u].valid /\ view[u].dbi = i /\ view[u].key = e.key
                                THEN [view[u] EXCEPT !.filled = FALSE]
                                ELSE view[u]]
    /\ UNCHANGED <<txnKind, txnid, mutex, handles, pc, op, nops>>

(* Transaction::commit ends 'txn; the environment then begins another one *)
commit(t) ==
    /\ pc[t] = "idle"
    /\ \A u \in Threads : ~Busy(u)
    /\ txnid < MaxTxns
    /\ nops < MaxOps
    /\ nops' = nops + 1
    /\ txnid' = txnid + 1
    /\ txnKind' \in Kinds
    /\ handles' = [h \in HandleIds |-> NoHandle]
    /\ view' = [u \in Threads |-> NoView]
    /\ op' = [u \in Threads |-> IF pc[u] = "idle" THEN NoOp ELSE op[u]]
    /\ UNCHANGED <<mutex, db, pc>>

(* one step of any thread of dom.threads, its inputs drawn from dom *)
Step(dom) ==
    \/ \E t \in dom.threads : \E name \in dom.names : \E flags \in dom.oflags : new(t, name, flags)
    \/ \E t \in dom.threads : new_ret(t)
    \/ \E t \in dom.threads : freelist_db(t)
    \/ \E t \in dom.threads : \E h \in HandleIds : dbi(t, h)
    \/ \E t \in dom.threads : \E h \in HandleIds : cursor(t, h)
    \/ \E t \in dom.threads : cursor_ret(t)
    \/ \E t \in dom.threads : \E h \in HandleIds : db_flags(t, h)
    \/ \E t \in dom.threads : db_flags_ret(t)
    \/ \E t \in dom.threads : \E h \in HandleIds : stat(t, h)
    \/ \E t \in dom.threads : stat_ret(t)
    \/ \E t \in dom.threads : \E h \in HandleIds : \E key \in dom.keys : \E len \in dom.lens :
          \E flags \in dom.wflags : reserve(t, h, key, len, flags)
    \/ \E t \in dom.threads : reserve_ret(t)
    \/ \E t \in dom.threads : \E h \in HandleIds : \E key \in dom.keys :
          \E data \in {NoData} \cup {Some(v) : v \in dom.deldata} : del(t, h, key, data)
    \/ \E t \in dom.threads : del_ret(t)
    \/ \E t \in dom.threads : \E h \in HandleIds : clear_db(t, h)
    \/ \E t \in dom.threads : clear_db_ret(t)
    \/ \E t \in dom.threads : \E h \in HandleIds : drop_db(t, h)
    \/ \E t \in dom.threads : drop_db_ret(t)
    \/ \E t \in dom.threads : \E h \in HandleIds : \E key \in dom.keys : \E data \in Values(1) :
          put(t, h, key, data, {})
    \/ \E t \in dom.threads : put_ret(t)
    \/ \E t \in dom.threads : \E h \in HandleIds : \E key \in dom.keys : get(t, h, key)
    \/ \E t \in dom.threads : get_ret(t)
    \/ \E t \in dom.threads : \E b \in dom.data : fill(t, b)
    \/ \E t \in dom.threads : txn_execute_lock(t)
    \/ \E t \in dom.threads : txn_execute_call(t)
    \/ \E t \in dom.threads : commit(t)

(* one thread, every input *)
SeqDom == [threads |-> {"t1"}, names |-> NameOpts, oflags |-> OpenFlagSets,
           keys |-> Keys, lens |-> Lens, wflags |-> WriteFlagSets,
           data |-> AllValues, deldata |-> Values(1)]

(* two threads sharing the transaction, over one key and one-byte values *)
MTDom  == [threads |-> Threads, names |-> {NoName, Some(NameA)},
           oflags |-> {{"CREATE"}}, keys |-> {"k1"}, lens |-> {1},
           wflags |-> {{}}, data |-> Values(1), deldata |-> Values(1)]

Next == Step(SeqDom)
NextMT == Step(MTDom)

Spec == Init /\ [][Next]_vars

InitMT == Init /\ db = EmptyEnv
SpecMT == InitMT /\ [][NextMT]_vars

(* the steps a thread takes by itself once its operation is invoked: the   *)
(* engine call returns, and the operation returns to its caller            *)
Running(t) ==
    \/ txn_execute_call(t)
    \/ new_ret(t) \/ cursor_ret(t) \/ db_flags_ret(t) \/ stat_ret(t)
    \/ reserve_ret(t) \/ del_ret(t) \/ clear_db_ret(t) \/ drop_db_ret(t)
    \/ put_ret(t) \/ get_ret(t)

(* engine calls return and threads keep running; a thread waiting for the  *)
(* mutex gets it once the mutex stays free.  A fair mutex gives more (the  *)
(* waiter gets it if it is free again and again); a run invokes at most    *)
(* MaxOps operations, so the weaker condition is the one assumed here.     *)
Fairness ==
    \A t \in Threads : WF_vars(Running(t)) /\ WF_vars(txn_execute_lock(t))

(* two threads over one database name, one key and one value *)
FairDom == [threads |-> Threads, names |-> {Some(NameA)},
            oflags |-> {{"CREATE"}}, keys |-> {"k1"}, lens |-> {1},
            wflags |-> {{}}, data |-> {<<0>>}, deldata |-> {<<0>>}]

NextFair == Step(FairDom)

SpecMTFair == InitMT /\ [][NextFair]_vars /\ Fairness

(***************************************************************************)
(* Properties                                                              *)
(***************************************************************************)
Finished(t) == pc[t] = "idle" /\ op[t].res # "none"
CallStep(t, name) == pc[t] = "call" /\ pc'[t] = "ret" /\ op[t].name = name
Invoked(t) == pc[t] = "idle" /\ nops' = nops + 1 /\ op'[t] # op[t]
WriteOps == {"reserve", "del", "clear_db", "drop_db"}

(* C1: a thread inside an engine call holds the transaction's mutex, so at *)
(* most one thread at a time is inside an engine call on the transaction.  *)
C1_EngineCallsSerialized ==
    /\ \A t \in Threads : pc[t] = "call" => mutex = t
    /\ \A t, u \in Threads : pc[t] = "call" /\ pc[u] = "call" => t = u

(* one thread is inside an engine call while the other waits for the mutex *)
C1_Witness ==
    \E t, u \in Threads :
        /\ t # u
        /\ pc[t] = "call" /\ mutex = t
        /\ pc[u] = "lock"
        /\ op[t].name \in WriteOps
        /\ op[u].name \in {"db_flags", "stat"}

(* C2: a handle's capability is the kind of its transaction from its       *)
(* construction on, and reserve, del, clear_db and drop_db are only ever   *)
(* invoked through a read-write handle, never in a read-only transaction.  *)
C2_CapabilityFixed ==
    [][ /\ \A h \in HandleIds :
              /\ handles'[h].st = "Constructed" => handles'[h].kind = txnKind'
              /\ handles[h].st # "None" /\ handles'[h].st # "None" /\ txnid' = txnid
                    => handles'[h].kind = handles[h].kind
        /\ \A t \in Threads :
              Invoked(t) /\ op'[t].name \in WriteOps
                    => /\ handles[op'[t].h].st = "Constructed"
                       /\ handles[op'[t].h].kind = "RW"
                       /\ txnKind = "RW" ]_vars

(* a handle of a read-only transaction has served a read, and no thread has *)
(* a write operation to its name                                            *)
C2_Witness ==
    \E t \in Threads : \E h \in HandleIds :
        /\ txnKind = "RO"
        /\ handles[h].st = "Constructed" /\ handles[h].kind = "RO"
        /\ Finished(t) /\ op[t].name = "stat" /\ op[t].h = h /\ op[t].res = "Ok"

RetStep(t, name) == pc[t] = "ret" /\ pc'[t] = "idle" /\ op[t].name = name
Statuses(outcomes) == {r.status : r \in outcomes}
OthersKept(i) == \A j \in DBIs : j # i => db'[j] = db[j]

(* C3: del(key, None) on a key that has entries succeeds, removes every    *)
(* entry of the key (with or without DUP_SORT) and nothing else, and a del *)
(* on the same key issued right after it returns NotFound.                 *)
C3_DelAllValues ==
    [][ \A t \in Threads :
          /\ CallStep(t, "del") /\ ~op[t].data.some
                /\ EntriesOf(db, op[t].dbi, op[t].key) # {}
             => /\ op'[t].status = "SUCCESS"
                /\ db'[op[t].dbi].entries =
                       db[op[t].dbi].entries \ EntriesOf(db, op[t].dbi, op[t].key)
                /\ db'[op[t].dbi].flags = db[op[t].dbi].flags
                /\ OthersKept(op[t].dbi)
                /\ \A d \in {NoData} \cup {Some(v) : v \in AllValues} :
                       Statuses((del_call([op[t] EXCEPT !.data = d]))') = {"NOTFOUND"}
          /\ RetStep(t, "del")
             => op'[t].res = (IF op[t].status = "SUCCESS" THEN "Ok" ELSE "Err") ]_vars

(* del(k1, None) has returned Ok on a DUP_SORT database whose key held two *)
(* values, and the key has none left                                       *)
C3_Witness ==
    \E t \in Threads :
        /\ Finished(t) /\ op[t].name = "del" /\ ~op[t].data.some
        /\ op[t].res = "Ok" /\ op[t].had = 2
        /\ "DUP_SORT" \in db[op[t].dbi].flags
        /\ db[op[t].dbi].entries = {}

(* C4: on an open database del(key, Some(data)) removes exactly the entry  *)
(* (key, data), leaving the other values of the key and all other keys; if *)
(* there is no such entry it returns NotFound and removes nothing.         *)
C4_DelOneValue ==
    [][ \A t \in Threads :
          CallStep(t, "del") /\ op[t].data.some /\ dbi_usrvalid(db, op[t].dbi)
             => LET e == [key |-> op[t].key, val |-> op[t].data.v]
                IN  IF e \in db[op[t].dbi].entries
                    THEN /\ op'[t].status = "SUCCESS"
                         /\ db'[op[t].dbi].entries = db[op[t].dbi].entries \ {e}
                         /\ db'[op[t].dbi].flags = db[op[t].dbi].flags
                         /\ OthersKept(op[t].dbi)
                    ELSE /\ op'[t].status = "NOTFOUND"
                         /\ db' = db ]_vars

(* del(k1, Some(v)) has returned Ok where k1 held two values: the other    *)
(* value is still there                                                    *)
C4_Witness ==
    \E t \in Threads :
        /\ Finished(t) /\ op[t].name = "del" /\ op[t].data.some
        /\ op[t].res = "Ok" /\ op[t].had = 2
        /\ Cardinality(EntriesOf(db, op[t].dbi, op[t].key)) = 1
        /\ \A e \in EntriesOf(db, op[t].dbi, op[t].key) : e.val # op[t].data.v

(* C5: a successful reserve(key, n, flags) returns a view of exactly n      *)
(* bytes onto a slot of n bytes that the database counts as key's entry;   *)
(* once the caller has filled the view, reading key gives exactly those n  *)
(* bytes, and still does after the transaction has committed.              *)
C5_ReserveRoundTrip ==
    [][ \A t \in Threads :
          /\ CallStep(t, "reserve") /\ op'[t].status = "SUCCESS"
             => /\ Cardinality(db'[op[t].dbi].entries) =
                       Cardinality(db[op[t].dbi].entries)
                         + (IF EntriesOf(db, op[t].dbi, op[t].key) = {} THEN 1 ELSE 0)
                /\ \A r \in (stat_call(op[t]))' :
                       r.out.entries = Cardinality(db'[op[t].dbi].entries)
                /\ \A e \in EntriesOf(db', op[t].dbi, op[t].key) : Len(e.val) = op[t].len
                /\ EntriesOf(db', op[t].dbi, op[t].key) # {}
          /\ RetStep(t, "reserve") /\ op'[t].res = "Ok"
             => /\ view'[t].some
                /\ view'[t].len = op[t].len
          /\ view'[t].some /\ view'[t].valid /\ view'[t].filled
             => /\ Len(view'[t].bytes) = view'[t].len
                /\ \A r \in mdbx_get(db', view'[t].dbi, view'[t].key) :
                       r.status = "SUCCESS" /\ r.out.vals = {view'[t].bytes}
          /\ txnid' # txnid /\ view[t].some /\ view[t].valid /\ view[t].filled
             => \A r \in mdbx_get(db', view[t].dbi, view[t].key) :
                       r.status = "SUCCESS" /\ r.out.vals = {view[t].bytes} ]_vars

(* a two-byte view has been filled and its slot is the key's entry *)
C5_Witness ==
    \E t \in Threads :
        /\ view[t].some /\ view[t].valid /\ view[t].filled
        /\ view[t].len = 2
        /\ view[t].bytes = <<1, 0>>
        /\ db[view[t].dbi].entries = {[key |-> view[t].key, val |-> <<1, 0>>]}

(* C6: a successful clear_db leaves the database with zero entries and its *)
(* flags as before, open, and the handle usable: del finds nothing and     *)
(* reserve is served as on an empty database.                              *)
C6_ClearKeepsDatabase ==
    [][ \A t \in Threads :
          /\ CallStep(t, "clear_db") /\ op'[t].status = "SUCCESS"
             => /\ \A r \in (stat_call(op[t]))' :
                       r.status = "SUCCESS" /\ r.out.entries = 0
                /\ \A r \in (db_flags_call(op[t]))' :
                       /\ r.status = "SUCCESS"
                       /\ \A q \in db_flags_call(op[t]) :
                              q.status = "SUCCESS" /\ q.out.flags = r.out.flags
                /\ OthersKept(op[t].dbi)
                /\ handles'[op[t].h] = handles[op[t].h]
                /\ handles'[op[t].h].st = "Constructed"
                /\ \A k \in Keys :
                      /\ Statuses((del_call([op[t] EXCEPT !.key = k]))') = {"NOTFOUND"}
                      /\ \A n \in Lens : \A w \in WriteFlagSets :
                            Statuses((reserve_call([op[t] EXCEPT !.key = k, !.len = n,
                                                                 !.flags = w]))')
                               \subseteq (IF "DUP_SORT" \in db[op[t].dbi].flags
                                          THEN {"INCOMPATIBLE"}
                                          ELSE {"SUCCESS", "MAP_FULL"})
          /\ RetStep(t, "clear_db")
             => op'[t].res = (IF op[t].status = "SUCCESS" THEN "Ok" ELSE "Err") ]_vars

(* clear_db has returned Ok on the named database, which held entries *)
C6_Witness ==
    \E t \in Threads :
        /\ Finished(t) /\ op[t].name = "clear_db" /\ op[t].res = "Ok"
        /\ op[t].had > 0
        /\ op[t].dbi >= CORE_DBS
        /\ db[op[t].dbi].exists /\ db[op[t].dbi].entries = {}

(* C7: new with a name that holds an interior 0 byte returns an error and  *)
(* no handle; the calling thread does not panic.                           *)
C7_InvalidNameIsAnError ==
    \A t \in Threads :
        op[t].name = "new" /\ op[t].dname.some /\ CString_new(op[t].dname.v) = "Err"
            => pc[t] # "panicked"

(* C8: a Constructed handle stays Constructed under every step but a       *)
(* drop_db on it (and the end of its transaction); drop_db makes it        *)
(* Invalid for good, whatever the call returns; no operation is invoked    *)
(* through a handle that is not Constructed.                               *)
C8_HandleLifecycle ==
    [][ /\ \A h \in HandleIds :
              txnid' = txnid =>
                 /\ handles[h].st = "Constructed" =>
                       \/ handles'[h] = handles[h]
                       \/ /\ handles'[h].st = "Invalid"
                          /\ \E t \in Threads :
                                Invoked(t) /\ op'[t].name = "drop_db" /\ op'[t].h = h
                 /\ handles[h].st = "Invalid" => handles'[h].st = "Invalid"
        /\ \A t \in Threads :
              /\ Invoked(t) /\ op'[t].h # 0 => handles[op'[t].h].st = "Constructed"
              /\ op'[t].name = "drop_db" => handles'[op'[t].h].st = "Invalid" ]_vars

(* drop_db has returned an error, and its handle is Invalid all the same *)
C8_Witness ==
    \E t \in Threads :
        /\ Finished(t) /\ op[t].name = "drop_db" /\ op[t].res = "Err"
        /\ handles[op[t].h].st = "Invalid"

(* C9: the view a successful reserve returned refers to the slot of its    *)
(* key for as long as the transaction lives, whatever is called later.     *)
C9_ViewStaysValid ==
    \A t \in Threads : view[t].some => view[t].valid

PublicOps == {"dbi", "cursor", "db_flags", "stat", "reserve", "del", "clear_db", "drop_db"}

(* C10 as stated: every public operation makes exactly one engine call and *)
(* returns Ok exactly when that call's status is success.                  *)
C10_EveryOpOneCall ==
    \A t \in Threads :
        Finished(t) /\ op[t].name \in PublicOps
            => /\ op[t].calls = 1
               /\ op[t].res = (IF op[t].status = "SUCCESS" THEN "Ok" ELSE "Err")

(* C10: every public operation but dbi() makes exactly one engine call and *)
(* returns Ok exactly when that call's status is success, an error         *)
(* otherwise; dbi() makes no engine call and always succeeds.              *)
C10_OneCallStatusDecides ==
    \A t \in Threads :
        /\ Finished(t) /\ op[t].name \in PublicOps \ {"dbi"}
            => /\ op[t].calls = 1
               /\ op[t].res = (IF op[t].status = "SUCCESS" THEN "Ok" ELSE "Err")
        /\ Finished(t) /\ op[t].name = "dbi"
            => op[t].calls = 0 /\ op[t].res = "Ok"
        /\ op[t].calls <= 1

(* del has returned the error of its one engine call *)
C10_Witness ==
    \E t \in Threads :
        /\ Finished(t) /\ op[t].name = "del"
        /\ op[t].calls = 1 /\ op[t].status = "NOTFOUND" /\ op[t].res = "Err"

(* C11: when the engine accepts new(name, flags), a db_flags() on the      *)
(* returned handle right after it succeeds and its result holds every      *)
(* requested flag the engine stores with the database (CREATE is an open   *)
(* mode, not stored); when flags were requested at all, the result is      *)
(* exactly the stored ones among them.                                     *)
C11_OpenThenFlags ==
    [][ \A t \in Threads :
          /\ CallStep(t, "new") /\ op'[t].status = "SUCCESS"
             => \A r \in (db_flags_call([NoOp EXCEPT !.dbi = op[t].out.dbi]))' :
                   /\ r.status = "SUCCESS"
                   /\ (op[t].flags \cap PersistentFlags) \subseteq from_bits_truncate(r.out.flags)
                   /\ op[t].flags # {}
                        => from_bits_truncate(r.out.flags) = op[t].flags \cap PersistentFlags
          /\ RetStep(t, "db_flags") /\ op[t].status = "SUCCESS"
             => /\ op'[t].res = "Ok"
                /\ op'[t].out.flags = from_bits_truncate(db[op[t].dbi].flags) ]_vars

(* new(.., CREATE | DUP_SORT) and then db_flags(), nothing else, have run   *)
(* in the first transaction: db_flags returned DUP_SORT for a database     *)
(* that holds no entry                                                     *)
C11_Witness ==
    \E t \in Threads :
        /\ Finished(t) /\ op[t].name = "db_flags" /\ op[t].res = "Ok"
        /\ op[t].out.flags = {"DUP_SORT"}
        /\ db[op[t].dbi].entries = {}
        /\ nops = 2 /\ txnid = 0

(* C12: freelist_db can be called whatever the state of the mutex; it      *)
(* returns at once with a handle of dbi 0 of the live transaction, makes   *)
(* no engine call, does not touch the mutex and leaves the engine and      *)
(* every other handle as they were.                                        *)
C12_FreelistDbIsFree ==
    /\ [](\A t \in Threads :
            pc[t] = "idle" /\ nops < MaxOps /\ Cardinality(FreeIds) > Cardinality(PendingNew)
               => ENABLED freelist_db(t))
    /\ [][ \A t \in Threads :
             Invoked(t) /\ op'[t].name = "freelist_db"
                => /\ op'[t].res = "Ok"
                   /\ op'[t].calls = 0 /\ op'[t].status = "none"
                   /\ pc'[t] = "idle"
                   /\ mutex' = mutex
                   /\ db' = db
                   /\ \E h \in HandleIds :
                         /\ handles[h].st = "None"
                         /\ handles'[h] = [st |-> "Constructed", dbi |-> FREE_DBI,
                                           kind |-> txnKind]
                         /\ \A g \in HandleIds \ {h} : handles'[g] = handles[g] ]_vars

(* a thread has its free-list handle while the other thread is inside an   *)
(* engine call, holding the mutex                                          *)
C12_Witness ==
    \E t, u \in Threads : \E h \in HandleIds :
        /\ t # u
        /\ Finished(t) /\ op[t].name = "freelist_db" /\ op[t].res = "Ok"
        /\ handles[h] = [st |-> "Constructed", dbi |-> FREE_DBI, kind |-> txnKind]
        /\ pc[u] = "call" /\ mutex = u

(* C13: an operation takes the mutex at most once and makes its engine     *)
(* call holding it; a thread waiting for the mutex does not hold it; the   *)
(* mutex is released when the engine call returns, with whatever status,   *)
(* so it is free whenever no operation is in progress; and with a fair     *)
(* mutex every invoked operation returns.                                  *)
C13_LockDiscipline ==
    /\ [](\A t \in Threads :
            /\ pc[t] = "lock" => mutex # t /\ op[t].calls = 0
            /\ pc[t] = "call" => mutex = t /\ op[t].calls = 0
            /\ pc[t] \in {"ret", "idle", "panicked"} => mutex # t
            /\ op[t].calls <= 1)
    /\ []((\A t \in Threads : ~Busy(t)) => mutex = NoThread)
    /\ \A t \in Threads : Busy(t) ~> Finished(t)

(* an operation whose engine call failed has returned its error, and the   *)
(* mutex it released is held by the other thread, inside its engine call   *)
C13_Witness ==
    \E t, u \in Threads :
        /\ t # u
        /\ Finished(t) /\ op[t].calls = 1 /\ op[t].res = "Err"
        /\ pc[u] = "call" /\ mutex = u

EngineOps == {"new", "cursor", "db_flags", "stat", "reserve", "del", "clear_db",
              "drop_db", "put", "get"}
Issued(t) == op'[t].seq > op[t].seq

(* C14: a thread issues an operation only when its previous one has        *)
(* returned, the engine call of that one made; the engine call a thread    *)
(* makes is the one of the operation it issued last, with the arguments    *)
(* it was issued with; so the calls of one thread reach the engine in the  *)
(* order of issue, whatever the other thread does.  Between threads the    *)
(* calls only exclude each other.                                          *)
C14_ProgramOrder ==
    [][ \A t \in Threads :
          /\ Issued(t)
             => /\ pc[t] = "idle"
                /\ op[t].name # "none" => op[t].res # "none"
                /\ op[t].name \in EngineOps => op[t].calls = 1
                /\ op'[t].calls = 0
                /\ \A u \in Threads : op'[t].seq > op[u].seq
          /\ op'[t].seq # op[t].seq
             => Issued(t) \/ (txnid' # txnid /\ op'[t] = NoOp)
          /\ CallStep(t, op[t].name)
             => /\ op[t].calls = 0 /\ op'[t].calls = 1
                /\ db' \in {r.db : r \in EngineOutcomes(op[t])}
                /\ [op'[t] EXCEPT !.status = "none", !.out = NoOut, !.calls = 0, !.had = 0]
                       = op[t]
                /\ \A u \in Threads \ {t} : pc[u] # "call" /\ op'[u] = op[u] ]_vars

(* the operation one thread issued first still waits for the mutex while   *)
(* a write the other thread issued later has been applied and has returned *)
C14_Witness ==
    \E t, u \in Threads :
        /\ t # u
        /\ pc[t] = "lock" /\ op[t].seq > 0 /\ op[t].seq < op[u].seq
        /\ Finished(u) /\ op[u].name \in WriteOps
        /\ op[u].calls = 1 /\ op[u].status = "SUCCESS"

(* C15: dbi(), db_flags() and stat() leave the engine's databases as they  *)
(* are, at every step from invocation to return; an engine call that      *)
(* returns an error status changes neither the databases nor any view;     *)
(* no step changes the dbi of an existing handle; and an operation that    *)
(* returns (an error included) was invoked with the mutex free and leaves  *)
(* it free.                                                                *)
C15_ReadsAndErrorsChangeNothing ==
    [][ \A t \in Threads :
          /\ Invoked(t) => db' = db /\ mutex' = mutex /\ mutex = NoThread
          /\ Invoked(t) /\ op'[t].name = "dbi"
             => /\ handles' = handles
                /\ op'[t].out.dbi = handles[op'[t].h].dbi
                /\ Finished(t)'
          /\ Busy(t) /\ op[t].name \in {"db_flags", "stat"}
             => db' = db /\ handles' = handles
          /\ CallStep(t, op[t].name) /\ op'[t].status # "SUCCESS"
             => db' = db /\ handles' = handles /\ view' = view
          /\ RetStep(t, op[t].name)
             => /\ db' = db /\ mutex' = NoThread
                /\ op'[t].res = "Err" => handles' = handles
          /\ \A h \in HandleIds :
                handles[h].st # "None" /\ handles'[h].st # "None"
                   => handles'[h].dbi = handles[h].dbi ]_vars

(* del of a key that is not there has returned NotFound on a database that *)
(* holds entries: they are all still there, the handle is as it was and    *)
(* the mutex is free                                                       *)
C15_Witness ==
    \E t \in Threads :
        /\ Finished(t) /\ op[t].name = "del"
        /\ op[t].status = "NOTFOUND" /\ op[t].res = "Err"
        /\ op[t].had > 0
        /\ Cardinality(db[op[t].dbi].entries) = op[t].had
        /\ handles[op[t].h] = [st |-> "Constructed", dbi |-> op[t].dbi, kind |-> "RW"]
        /\ mutex = NoThread

====
